---- MODULE Spec2Model ----
(***************************************************************************)
(* Model of wallpaper_gen.py: one run of main(), from the template check   *)
(* to the exit status, with the job description injection, the readiness   *)
(* poll, the submission, the completion watcher, the result fetcher, the   *)
(* wallpaper update and the two nested cleanup blocks.                     *)
(***************************************************************************)
EXTENDS Integers, Sequences, FiniteSets, TLC

\* ---------------------------------------------------------------- bounds
\* The history outputs hold at most MaxStages stages, each with at most
\* MaxImages image entries.
MaxStages == 2
MaxImages == 2
\* The text-generation CLI prints at most MaxLines lines.
MaxLines == 2

\* ------------------------------------------------------ program constants
\* wait_for_comfyui(timeout=60), in seconds
ReadyTimeout == 60
\* time.sleep(1) between two probes
PollSleep == 1
\* urlopen(..., timeout=1): a failing probe takes between 0 and 1 second
ProbeTimeout == 1
\* random.randint(1, 2**32 - 1): a seed is written in base 2**16 as
\* hi * Word + lo, so that 2**32 - 1 is the largest two-digit number
Word == 65536
Seed(h, l) == [hi |-> h, lo |-> l]
SeedMin == Seed(0, 1)
SeedMax == Seed(Word - 1, Word - 1)

\* Python's None
None == "<None>"

\* ------------------------------------------------------------ dictionaries
\* A Python dict is a function whose DOMAIN is its key set.
EmptyDict == [k \in {} |-> 0]

\* d[k] = v on a dict: adds the key when it is absent
SetItem(d, k, v) == [x \in (DOMAIN d) \cup {k} |-> IF x = k THEN v ELSE d[x]]

\* ------------------------------------------------------- job descriptions
\* Seeds a template file may hold: 0 and 2**32, on either side of the
\* injected range.
TemplateSeeds == {Seed(0, 0), Seed(Word, 0)}
\* Values random.randint(1, 2**32 - 1) can return: both ends of the range.
RandomSeeds == {SeedMin, SeedMax}
DefaultText == <<<<"template", "prompt">>>>
ARTIST_TAGS == {"@0202ase", "@agahari"}
netayume_prefix == "You are an assistant ... <Prompt Start> "

\* the "inputs" mapping of a stage: any subset of the two parameters
InputsSet ==
    { [k \in S |-> IF k = "seed" THEN sv ELSE DefaultText] :
          S \in SUBSET {"seed", "text"}, sv \in TemplateSeeds }

\* a stage configuration, with or without an "inputs" parameter
StageCfgs ==
    {[class_type |-> "Node"]}
        \cup {[class_type |-> "Node", inputs |-> i] : i \in InputsSet}

\* a stage the program never looks at
SaveStage == [class_type |-> "SaveImage", inputs |-> [filename_prefix |-> "wp"]]

\* the job descriptions wallpaper_api.json may hold
Templates ==
    { [k \in D \cup {"9"} |->
          IF k = "3" THEN s3 ELSE IF k = "6" THEN s6 ELSE SaveStage] :
          D \in SUBSET {"3", "6"}, s3 \in StageCfgs, s6 \in StageCfgs }

\* the value the workflow variables hold outside load_workflow .. queue_prompt
NoWorkflow == EmptyDict

\* ------------------------------------------------- text-generation CLI
\* A line of the CLI's output is the sequence of its words.
BlankLine == << >>
BannerLine == <<"Loaded", "cached", "credentials.">>
SceneLine == <<"rain", "on", "neon", "streets">>
CliLines == {BlankLine, BannerLine, SceneLine}

\* the words of filter_keywords that the lines above can contain
filter_keywords == {"loaded", "credentials", "ready.", "[warn]", "warning:"}

\* str.lower() on the words used here
Lower(word) ==
    CASE word = "Loaded" -> "loaded"
      [] word = "credentials." -> "credentials"
      [] OTHER -> word

\* any(keyword in line.lower() for keyword in filter_keywords)
IsStatusLine(line) == \E i \in 1..Len(line) : Lower(line[i]) \in filter_keywords

\* str.strip() on a text given as its lines: the blank lines at both ends go
RECURSIVE StripLeft(_)
StripLeft(lines) ==
    IF lines # << >> /\ Head(lines) = BlankLine
    THEN StripLeft(Tail(lines)) ELSE lines

RECURSIVE StripRight(_)
StripRight(lines) ==
    IF lines # << >> /\ lines[Len(lines)] = BlankLine
    THEN StripRight(SubSeq(lines, 1, Len(lines) - 1)) ELSE lines

Strip(lines) == StripRight(StripLeft(lines))

\* the list comprehension that drops the status lines
NotStatusLine(line) == ~IsStatusLine(line)
FilterLines(lines) == SelectSeq(lines, NotStatusLine)

\* what subprocess.run(['gemini', ...]) did: the binary is missing, the call
\* timed out, another exception was raised, the exit code was not 0, or it
\* exited 0 having printed stdout
CliOutcomes ==
    {[status |-> st, stdout |-> << >>] :
         st \in {"missing", "timeout", "error", "nonzero"}}
        \cup {[status |-> "ok", stdout |-> out] :
                 out \in UNION {[1..n -> CliLines] : n \in 0..MaxLines}}

NoCli == [status |-> "none", stdout |-> << >>]

\* the return value of generate_scene_with_gemini: None, or the scene text
NoScene == [some |-> FALSE, text |-> << >>]
SomeScene(lines) == [some |-> TRUE, text |-> lines]

\* Python truthiness of that value: None and "" are false
Truthy(scene) == scene.some /\ scene.text # << >>

\* generate_scene_with_gemini without the filter of the status lines
SceneUnfiltered(c) ==
    IF c.status = "ok"
    THEN LET generated_scene == Strip(c.stdout) IN
         IF generated_scene = << >> THEN NoScene
         ELSE SomeScene(generated_scene)
    ELSE NoScene

\* generate_scene_with_gemini: the filtered scene, or None on every failure
generate_scene_with_gemini(c) ==
    IF c.status = "ok"
    THEN LET generated_scene == Strip(FilterLines(Strip(c.stdout))) IN
         IF generated_scene = << >> THEN NoScene
         ELSE SomeScene(generated_scene)
    ELSE NoScene

\* SeedInjected that keeps a seed the template already sets to a non-zero
\* value
SeedInjectedIfUnset(w, new_seed) ==
    IF "3" \in DOMAIN w /\ "inputs" \in DOMAIN w["3"]
          /\ "seed" \in DOMAIN w["3"]["inputs"]
          /\ w["3"]["inputs"]["seed"] = Seed(0, 0)
    THEN SetItem(w, "3",
             SetItem(w["3"], "inputs",
                 SetItem(w["3"]["inputs"], "seed", new_seed)))
    ELSE w

\* load_workflow, seed injection
SeedInjected(w, new_seed) ==
    IF "3" \in DOMAIN w /\ "inputs" \in DOMAIN w["3"]
          /\ "seed" \in DOMAIN w["3"]["inputs"]
    THEN SetItem(w, "3",
             SetItem(w["3"], "inputs",
                 SetItem(w["3"]["inputs"], "seed", new_seed)))
    ELSE w

\* load_workflow, prompt injection
PromptInjected(w, scene, artist_tag) ==
    IF Truthy(scene) /\ "6" \in DOMAIN w /\ "inputs" \in DOMAIN w["6"]
    THEN SetItem(w, "6",
             SetItem(w["6"], "inputs",
                 SetItem(w["6"]["inputs"], "text",
                     <<<<netayume_prefix>>, <<artist_tag>>, <<", ">>>>
                         \o scene.text)))
    ELSE w

\* the job description load_workflow returns
load_workflow(w, new_seed, c, artist_tag) ==
    PromptInjected(SeedInjected(w, new_seed),
                   generate_scene_with_gemini(c), artist_tag)

\* ------------------------------------------------------------ event stream
PromptIds == {"job-a", "job-b"}
NodeIds == {"3"}

\* data of an event: any subset of the two fields
EventData ==
    { [k \in S |-> IF k = "node" THEN n ELSE p] :
          S \in SUBSET {"node", "prompt_id"},
          n \in NodeIds \cup {None}, p \in PromptIds }

EventTypes == {"executing", "status"}

\* decoded JSON objects: with or without "type", with or without "data"
Messages ==
    {EmptyDict}
        \cup {[type |-> t] : t \in EventTypes}
        \cup {[data |-> d] : d \in EventData}
        \cup {[type |-> t, data |-> d] : t \in EventTypes, d \in EventData}

\* what ws.recv() returns: a binary frame, a text frame that is not JSON,
\* or a text frame holding a JSON object
Frames ==
    {[str |-> FALSE, json |-> FALSE, msg |-> EmptyDict],
     [str |-> TRUE, json |-> FALSE, msg |-> EmptyDict]}
        \cup {[str |-> TRUE, json |-> TRUE, msg |-> m] : m \in Messages}

NoFrame == [str |-> FALSE, json |-> FALSE, msg |-> [none |-> TRUE]]

\* WatchStep without the comparison of the job identifier
WatchStepLenient(out, prompt_id) ==
    IF ~out.str THEN "continue"
    ELSE IF ~out.json THEN "raise"
    ELSE LET message == out.msg IN
        IF "type" \notin DOMAIN message THEN "raise"
        ELSE IF message["type"] # "executing" THEN "continue"
        ELSE IF "data" \notin DOMAIN message THEN "raise"
        ELSE LET data == message["data"] IN
            IF "node" \notin DOMAIN data THEN "raise"
            ELSE IF data["node"] # None THEN "continue"
            ELSE "break"

\* WatchStep without the test of the node field
WatchStepAnyNode(out, prompt_id) ==
    IF ~out.str THEN "continue"
    ELSE IF ~out.json THEN "raise"
    ELSE LET message == out.msg IN
        IF "type" \notin DOMAIN message THEN "raise"
        ELSE IF message["type"] # "executing" THEN "continue"
        ELSE IF "data" \notin DOMAIN message THEN "raise"
        ELSE LET data == message["data"] IN
            IF "node" \notin DOMAIN data THEN "raise"
            ELSE IF "prompt_id" \notin DOMAIN data THEN "raise"
            ELSE IF data["prompt_id"] = prompt_id THEN "break"
            ELSE "continue"

\* WatchStep with a test of the node field that never succeeds
WatchStepNeverBreaks(out, prompt_id) ==
    IF ~out.str THEN "continue"
    ELSE IF ~out.json THEN "raise"
    ELSE LET message == out.msg IN
        IF "type" \notin DOMAIN message THEN "raise"
        ELSE IF message["type"] # "executing" THEN "continue"
        ELSE IF "data" \notin DOMAIN message THEN "raise"
        ELSE LET data == message["data"] IN
            IF "node" \notin DOMAIN data THEN "raise"
            ELSE IF data["node"] # None THEN "continue"
            ELSE IF "prompt_id" \notin DOMAIN data THEN "raise"
            ELSE "continue"

\* one iteration of the receive loop on frame out, watching prompt_id:
\* "break" leaves the loop, "continue" receives again, "raise" is an
\* exception (json.loads, or a missing key)
WatchStep(out, prompt_id) ==
    IF ~out.str THEN "continue"
    ELSE IF ~out.json THEN "raise"
    ELSE LET message == out.msg IN
        IF "type" \notin DOMAIN message THEN "raise"
        ELSE IF message["type"] # "executing" THEN "continue"
        ELSE IF "data" \notin DOMAIN message THEN "raise"
        ELSE LET data == message["data"] IN
            IF "node" \notin DOMAIN data THEN "raise"
            ELSE IF data["node"] # None THEN "continue"
            ELSE IF "prompt_id" \notin DOMAIN data THEN "raise"
            ELSE IF data["prompt_id"] = prompt_id THEN "break"
            ELSE "continue"

\* ----------------------------------------------------------------- history
OutputStageIds == {"5", "9", "12"}

\* an image entry: the filename / subfolder / type triple of the i-th image
\* of stage sid
Image(sid, i) == [filename |-> i, subfolder |-> sid, type |-> "output"]
NoImage == [filename |-> 0, subfolder |-> None, type |-> None]

\* the output of one stage: no "images" key (kind -1), or an "images" list
\* of kind entries
NodeOutput(sid, kind) ==
    IF kind < 0 THEN [text |-> "preview"]
    ELSE [images |-> [i \in 1..kind |-> Image(sid, i)]]

\* the "outputs" mapping in iteration order: a sequence of (id, output)
\* entries with distinct ids
OutputsOfLen(n) ==
    { [i \in 1..n |-> [id |-> ids[i], out |-> NodeOutput(ids[i], kinds[i])]] :
          ids \in { s \in [1..n -> OutputStageIds] :
                       \A i, j \in 1..n : i # j => s[i] # s[j] },
          kinds \in [1..n -> -1..MaxImages] }

OutputsSet == UNION { OutputsOfLen(n) : n \in 0..MaxStages }

\* the history entry of a job, with or without "outputs"
HistoryEntries ==
    {[status |-> "done"]}
        \cup {[status |-> "done", outputs |-> o] : o \in OutputsSet}

\* the body of GET /history/<prompt_id>: the entry under that key, or {}
HistoryResponses(prompt_id) ==
    {EmptyDict} \cup { [k \in {prompt_id} |-> e] : e \in HistoryEntries }

NoHistory == [none |-> TRUE]

\* ScanOutputs returning the image of the last stage that has one
RECURSIVE ScanLastStage(_, _)
ScanLastStage(outputs, i) ==
    IF i > Len(outputs) THEN NoImage
    ELSE LET node_output == outputs[i].out
             rest == ScanLastStage(outputs, i + 1) IN
        IF rest # NoImage THEN rest
        ELSE IF "images" \in DOMAIN node_output /\ Len(node_output["images"]) > 0
        THEN node_output["images"][1]
        ELSE NoImage

\* the for loops over history['outputs']: the first image entry of the
\* first stage that has a non-empty "images" list, NoImage when none
RECURSIVE ScanOutputs(_, _)
ScanOutputs(outputs, i) ==
    IF i > Len(outputs) THEN NoImage
    ELSE LET node_output == outputs[i].out IN
        IF "images" \in DOMAIN node_output /\ Len(node_output["images"]) > 0
        THEN node_output["images"][1]
        ELSE ScanOutputs(outputs, i + 1)

\* the bytes GET /view returns for an image entry; b"" is possible
ImageBytes(image) == {[of |-> image, len |-> n] : n \in {0, 1}}
NoBytes == [of |-> NoImage, len |-> 0]

\* -------------------------------------------------------------------- state
VARIABLES
    pc,          \* position of the run in main()
    outcome,     \* how main() is leaving: "none", "return0", "return1", "raise"
    rc,          \* exit status of the process, -1 while running
    failed,      \* the step whose failure ended the run, "none" otherwise
    template,    \* the job description read from WORKFLOW_PATH
    workflow,    \* the job description after injection
    cli,         \* what the text-generation CLI call did
    scene,       \* what generate_scene_with_gemini returned
    proc,        \* the server process: "none", "running", "exited"
    starts,      \* calls of start_comfyui that spawned a process
    stops,       \* calls of stop_comfyui
    sigterm,     \* proc.terminate() was called
    sigkill,     \* proc.kill() was called
    elapsed,     \* time.time() - start_time in wait_for_comfyui
    ready,       \* result of wait_for_comfyui: "unknown", "yes", "no"
    ws,          \* the streaming connection: "none", "open", "closed"
    closes,      \* calls of ws.close()
    prompt_id,   \* the job identifier of generate_image
    submits,     \* calls of queue_prompt
    lastFrame,   \* the frame the last ws.recv() returned
    sawForeign,  \* a node-unset executing event of another job was received
    history,     \* get_history(prompt_id)
    target,      \* the image entry handed to get_image
    histories,   \* calls of get_history
    downloads,   \* calls of get_image
    image_data,  \* what generate_image returned
    saved,       \* the timestamped image file was written
    symlink0,    \* what was at WALLPAPER_SYMLINK when the run began
    symlink,     \* what is at WALLPAPER_SYMLINK
    swaybg       \* the background process: "old", "new"

vars == <<pc, outcome, rc, failed, template, workflow, cli, scene, proc, starts,
          stops, sigterm, sigkill, elapsed, ready, ws, closes, prompt_id,
          submits, lastFrame, sawForeign, history, target, histories,
          downloads, image_data, saved, symlink0, symlink, swaybg>>

jobVars == <<template, workflow, cli, scene>>
procVars == <<proc, starts, stops, sigterm, sigkill>>
waitVars == <<elapsed, ready>>
wsVars == <<ws, closes>>
genVars == <<prompt_id, submits, lastFrame, sawForeign, history, target,
             histories, downloads, image_data>>
wallVars == <<saved, symlink0, symlink, swaybg>>

\* what can be at the symlink path before the run
SymlinkStates == {"absent", "link", "dangling", "file", "dir"}

Init ==
    /\ pc = "main"
    /\ outcome = "none"
    /\ rc = -1
    /\ failed = "none"
    /\ template = NoWorkflow
    /\ workflow = NoWorkflow
    /\ cli = NoCli
    /\ scene = NoScene
    /\ proc = "none"
    /\ starts = 0
    /\ stops = 0
    /\ sigterm = FALSE
    /\ sigkill = FALSE
    /\ elapsed = 0
    /\ ready = "unknown"
    /\ ws = "none"
    /\ closes = 0
    /\ prompt_id = None
    /\ submits = 0
    /\ lastFrame = NoFrame
    /\ sawForeign = FALSE
    /\ history = NoHistory
    /\ target = NoImage
    /\ histories = 0
    /\ downloads = 0
    /\ image_data = NoBytes
    /\ saved = FALSE
    /\ symlink0 \in SymlinkStates
    /\ symlink = symlink0
    /\ swaybg = "old"

\* ------------------------------------------------------------------ actions
\* leaving main() from outside both try blocks
Leave(how, step) ==
    /\ pc' = "returned"
    /\ outcome' = how
    /\ failed' = step

\* LeaveOuter without the outer finally block
LeaveOuterNoFinally(how, step) ==
    /\ pc' = "returned"
    /\ outcome' = how
    /\ failed' = step

\* leaving from inside the outer try block only: its finally runs
LeaveOuter(how, step) ==
    /\ pc' = "stop"
    /\ outcome' = how
    /\ failed' = step

\* LeaveInner without the inner finally block
LeaveInnerNoClose(how, step) ==
    /\ pc' = "stop"
    /\ outcome' = how
    /\ failed' = step

\* leaving from inside the inner try block: both finally blocks run
LeaveInner(how, step) ==
    /\ pc' = "close"
    /\ outcome' = how
    /\ failed' = step

\* main(): the check that the workflow file exists
Main ==
    /\ pc = "main"
    /\ \E exists \in BOOLEAN :
          IF exists
          THEN pc' = "load" /\ UNCHANGED <<outcome, failed>>
          ELSE Leave("return1", "template")
    /\ UNCHANGED <<rc, jobVars, procVars, waitVars, wsVars, genVars, wallVars>>

\* workflow = load_workflow(): the file may not parse; otherwise the seed
\* and the prompt are injected into what it holds
LoadWorkflow ==
    /\ pc = "load"
    /\ \/ /\ Leave("raise", "load")
          /\ UNCHANGED jobVars
       \/ \E w \in Templates, new_seed \in RandomSeeds,
             c \in CliOutcomes, artist_tag \in ARTIST_TAGS :
             /\ template' = w
             /\ cli' = c
             /\ scene' = generate_scene_with_gemini(c)
             /\ workflow' = load_workflow(w, new_seed, c, artist_tag)
             /\ pc' = "start"
             /\ UNCHANGED <<outcome, failed>>
    /\ UNCHANGED <<rc, procVars, waitVars, wsVars, genVars, wallVars>>

\* comfyui_proc = start_comfyui(); the result object of the CLI call went
\* away when load_workflow returned
StartComfyui ==
    /\ pc = "start"
    /\ \/ /\ Leave("raise", "start")
          /\ UNCHANGED <<proc, starts>>
       \/ /\ proc' = "running"
          /\ starts' = starts + 1
          /\ pc' = "wait"
          /\ UNCHANGED <<outcome, failed>>
    /\ cli' = NoCli
    /\ UNCHANGED <<rc, template, workflow, scene, stops, sigterm, sigkill,
                   waitVars, wsVars, genVars, wallVars>>

\* one iteration of the loop of wait_for_comfyui: a probe that answers, or
\* a probe that fails followed by the sleep
WaitProbe ==
    /\ pc = "wait"
    /\ elapsed < ReadyTimeout
    /\ \/ /\ ready' = "yes"
          /\ elapsed' = 0
          /\ pc' = "connect"
       \/ /\ \E d \in 0..ProbeTimeout : elapsed' = elapsed + d + PollSleep
          /\ UNCHANGED <<ready, pc>>
    /\ UNCHANGED <<outcome, rc, failed, jobVars, procVars, wsVars, genVars,
                   wallVars>>

\* WaitTimeout with the result of wait_for_comfyui not looked at
WaitTimeoutIgnored ==
    /\ pc = "wait"
    /\ ~(elapsed < ReadyTimeout)
    /\ ready' = "no"
    /\ elapsed' = 0
    /\ pc' = "connect"
    /\ UNCHANGED <<outcome, failed>>
    /\ UNCHANGED <<rc, jobVars, procVars, wsVars, genVars, wallVars>>

\* the loop condition fails: wait_for_comfyui returns False, main returns 1
WaitTimeout ==
    /\ pc = "wait"
    /\ ~(elapsed < ReadyTimeout)
    /\ ready' = "no"
    /\ elapsed' = 0
    /\ LeaveOuter("return1", "ready")
    /\ UNCHANGED <<rc, jobVars, procVars, wsVars, genVars, wallVars>>

\* Connect placed before the outer try block
ConnectOutsideTry ==
    /\ pc = "connect"
    /\ \/ /\ Leave("raise", "connect")
          /\ UNCHANGED ws
       \/ /\ ws' = "open"
          /\ pc' = "submit"
          /\ UNCHANGED <<outcome, failed>>
    /\ UNCHANGED <<rc, jobVars, procVars, waitVars, closes, genVars, wallVars>>

\* ws = websocket.WebSocket(); ws.connect(...)
Connect ==
    /\ pc = "connect"
    /\ \/ /\ LeaveOuter("raise", "connect")
          /\ UNCHANGED ws
       \/ /\ ws' = "open"
          /\ pc' = "submit"
          /\ UNCHANGED <<outcome, failed>>
    /\ UNCHANGED <<rc, jobVars, procVars, waitVars, closes, genVars, wallVars>>

\* Submit with a failure of queue_prompt caught and passed over
SubmitFailureSwallowed ==
    /\ pc = "submit"
    /\ \E id \in PromptIds : prompt_id' = id
    /\ submits' = submits + 1
    /\ template' = NoWorkflow
    /\ workflow' = NoWorkflow
    /\ pc' = "watch"
    /\ \/ failed' = "submit" /\ UNCHANGED outcome
       \/ UNCHANGED <<outcome, failed>>
    /\ UNCHANGED <<rc, cli, scene, procVars, waitVars, wsVars, lastFrame, sawForeign,
                   history, target, histories, downloads, image_data, wallVars>>

\* generate_image: a fresh prompt_id, then queue_prompt; the job
\* description is not used after the request
Submit ==
    /\ pc = "submit"
    /\ \E id \in PromptIds : prompt_id' = id
    /\ submits' = submits + 1
    /\ template' = NoWorkflow
    /\ workflow' = NoWorkflow
    /\ \/ LeaveInner("raise", "submit")
       \/ /\ pc' = "watch"
          /\ UNCHANGED <<outcome, failed>>
    /\ UNCHANGED <<rc, cli, scene, procVars, waitVars, wsVars, lastFrame, sawForeign,
                   history, target, histories, downloads, image_data, wallVars>>

\* a node-unset executing event of a job other than id
ForeignCompletion(out, id) ==
    /\ out.str /\ out.json
    /\ DOMAIN out.msg = {"type", "data"}
    /\ out.msg["type"] = "executing"
    /\ DOMAIN out.msg["data"] = {"node", "prompt_id"}
    /\ out.msg["data"]["node"] = None
    /\ out.msg["data"]["prompt_id"] # id

\* one iteration of the receive loop: ws.recv() raises, or returns a frame
Recv ==
    /\ pc = "watch"
    /\ \/ /\ LeaveInner("raise", "recv")
          /\ UNCHANGED <<lastFrame, sawForeign>>
       \/ \E out \in Frames :
             /\ lastFrame' = out
             /\ sawForeign' = (sawForeign \/ ForeignCompletion(out, prompt_id))
             /\ LET step == WatchStep(out, prompt_id) IN
                   CASE step = "continue" -> UNCHANGED <<pc, outcome, failed>>
                     [] step = "break" ->
                           pc' = "history" /\ UNCHANGED <<outcome, failed>>
                     [] step = "raise" -> LeaveInner("raise", "watch")
    /\ UNCHANGED <<rc, jobVars, procVars, waitVars, wsVars, prompt_id, submits,
                   history, target, histories, downloads, image_data, wallVars>>

\* GetHistory asking for the history of another identifier
GetHistoryWrongId ==
    /\ pc = "history"
    /\ histories' = histories + 1
    /\ \/ /\ LeaveInner("raise", "history")
          /\ UNCHANGED <<history, target>>
       \/ \E id \in PromptIds \ {prompt_id} :
          \E response \in HistoryResponses(id) :
             /\ history' = response
             /\ IF id \notin DOMAIN response
                   \/ "outputs" \notin DOMAIN response[id]
                THEN LeaveInner("raise", "history_key") /\ UNCHANGED target
                ELSE LET image == ScanOutputs(response[id]["outputs"], 1) IN
                     /\ target' = image
                     /\ pc' = IF image = NoImage THEN "check" ELSE "download"
                     /\ UNCHANGED <<outcome, failed>>
    /\ UNCHANGED <<rc, jobVars, procVars, waitVars, wsVars, prompt_id, submits,
                   lastFrame, sawForeign, downloads, image_data, wallVars>>

\* GetHistory reading a missing "outputs" as an empty mapping
GetHistoryLenient ==
    /\ pc = "history"
    /\ histories' = histories + 1
    /\ \/ /\ LeaveInner("raise", "history")
          /\ UNCHANGED <<history, target>>
       \/ \E response \in HistoryResponses(prompt_id) :
             /\ history' = response
             /\ IF prompt_id \notin DOMAIN response
                THEN LeaveInner("raise", "history_key") /\ UNCHANGED target
                ELSE LET outputs ==
                             IF "outputs" \in DOMAIN response[prompt_id]
                             THEN response[prompt_id]["outputs"] ELSE << >>
                         image == ScanOutputs(outputs, 1) IN
                     /\ target' = image
                     /\ pc' = IF image = NoImage THEN "check" ELSE "download"
                     /\ UNCHANGED <<outcome, failed>>
    /\ UNCHANGED <<rc, jobVars, procVars, waitVars, wsVars, prompt_id, submits,
                   lastFrame, sawForeign, downloads, image_data, wallVars>>

\* history = get_history(prompt_id)[prompt_id] and the scan of its outputs:
\* the request fails, a key is missing, no image is found (return None), or
\* the first image found goes to get_image
GetHistory ==
    /\ pc = "history"
    /\ histories' = histories + 1
    /\ \/ /\ LeaveInner("raise", "history")
          /\ UNCHANGED <<history, target>>
       \/ \E response \in HistoryResponses(prompt_id) :
             /\ history' = response
             /\ IF prompt_id \notin DOMAIN response
                   \/ "outputs" \notin DOMAIN response[prompt_id]
                THEN LeaveInner("raise", "history_key") /\ UNCHANGED target
                ELSE LET image == ScanOutputs(response[prompt_id]["outputs"], 1) IN
                     /\ target' = image
                     /\ pc' = IF image = NoImage THEN "check" ELSE "download"
                     /\ UNCHANGED <<outcome, failed>>
    /\ UNCHANGED <<rc, jobVars, procVars, waitVars, wsVars, prompt_id, submits,
                   lastFrame, sawForeign, downloads, image_data, wallVars>>

\* return get_image(image['filename'], image['subfolder'], image['type'])
GetImage ==
    /\ pc = "download"
    /\ downloads' = downloads + 1
    /\ \/ /\ LeaveInner("raise", "fetch")
          /\ history' = NoHistory
          /\ UNCHANGED image_data
       \/ /\ \E bytes \in ImageBytes(target) : image_data' = bytes
          /\ pc' = "check"
          /\ UNCHANGED <<outcome, failed, history>>
    /\ UNCHANGED <<rc, jobVars, procVars, waitVars, wsVars, prompt_id, submits,
                   lastFrame, sawForeign, target, histories, wallVars>>

\* CheckImage without the test of image_data
CheckImageUntested ==
    /\ pc = "check"
    /\ history' = NoHistory
    /\ lastFrame' = NoFrame
    /\ pc' = "save"
    /\ UNCHANGED <<outcome, failed>>
    /\ UNCHANGED <<rc, jobVars, procVars, waitVars, wsVars, prompt_id, submits,
                   sawForeign, target, histories, downloads, image_data,
                   wallVars>>

\* if image_data: ... else: return 1
CheckImage ==
    /\ pc = "check"
    /\ history' = NoHistory
    /\ lastFrame' = NoFrame
    /\ IF image_data.len > 0
       THEN pc' = "save" /\ UNCHANGED <<outcome, failed>>
       ELSE LeaveInner("return1", "noimage")
    /\ UNCHANGED <<rc, jobVars, procVars, waitVars, wsVars, prompt_id, submits,
                   sawForeign, target, histories, downloads, image_data,
                   wallVars>>

\* the image is written to its timestamped path
SaveImage ==
    /\ pc = "save"
    /\ \/ /\ LeaveInner("raise", "save")
          /\ UNCHANGED saved
       \/ /\ saved' = TRUE
          /\ pc' = "setwp"
          /\ UNCHANGED <<outcome, failed>>
    /\ UNCHANGED <<rc, jobVars, procVars, waitVars, wsVars, genVars, symlink0,
                   symlink, swaybg>>

\* os.path.islink(path): the path itself is a symbolic link
islink(s) == s \in {"link", "dangling", "new"}

\* os.path.exists(path): the path, symbolic links followed, leads somewhere
exists(s) == s \in {"link", "file", "dir", "new"}

\* RemoveSymlink with the test of os.path.exists alone
RemoveSymlinkExistsOnly ==
    /\ pc = "setwp"
    /\ IF exists(symlink)
       THEN \/ LeaveInner("raise", "apply") /\ UNCHANGED symlink
            \/ /\ symlink # "dir"
               /\ symlink' = "absent"
               /\ pc' = "symlink"
               /\ UNCHANGED <<outcome, failed>>
       ELSE /\ pc' = "symlink"
            /\ UNCHANGED <<symlink, outcome, failed>>
    /\ UNCHANGED <<rc, jobVars, procVars, waitVars, wsVars, genVars, saved,
                   symlink0, swaybg>>

\* set_wallpaper_swaybg: whatever is at the symlink path is removed;
\* os.remove raises on a directory, and may raise on anything else
RemoveSymlink ==
    /\ pc = "setwp"
    /\ IF islink(symlink) \/ exists(symlink)
       THEN \/ LeaveInner("raise", "apply") /\ UNCHANGED symlink
            \/ /\ symlink # "dir"
               /\ symlink' = "absent"
               /\ pc' = "symlink"
               /\ UNCHANGED <<outcome, failed>>
       ELSE /\ pc' = "symlink"
            /\ UNCHANGED <<symlink, outcome, failed>>
    /\ UNCHANGED <<rc, jobVars, procVars, waitVars, wsVars, genVars, saved,
                   symlink0, swaybg>>

\* set_wallpaper_swaybg: os.symlink(image_path, WALLPAPER_SYMLINK), which
\* raises when the path is taken
CreateSymlink ==
    /\ pc = "symlink"
    /\ \/ LeaveInner("raise", "apply") /\ UNCHANGED symlink
       \/ /\ symlink = "absent"
          /\ symlink' = "new"
          /\ pc' = "swaybg"
          /\ UNCHANGED <<outcome, failed>>
    /\ UNCHANGED <<rc, jobVars, procVars, waitVars, wsVars, genVars, saved,
                   symlink0, swaybg>>

\* set_wallpaper_swaybg: pkill swaybg, then a new swaybg; main returns 0
RestartSwaybg ==
    /\ pc = "swaybg"
    /\ \/ LeaveInner("raise", "apply") /\ UNCHANGED swaybg
       \/ /\ swaybg' = "new"
          /\ LeaveInner("return0", "none")
    /\ UNCHANGED <<rc, jobVars, procVars, waitVars, wsVars, genVars, saved,
                   symlink0, symlink>>

\* inner finally: ws.close(); an exception it raises replaces the outcome
CloseWs ==
    /\ pc = "close"
    /\ closes' = closes + 1
    /\ ws' = "closed"
    /\ pc' = "stop"
    /\ \/ UNCHANGED <<outcome, failed>>
       \/ /\ outcome' = "raise"
          /\ failed' = IF failed = "none" THEN "close" ELSE failed
    /\ UNCHANGED <<rc, jobVars, procVars, waitVars, genVars, wallVars>>

\* outer finally: stop_comfyui(comfyui_proc), proc.terminate()
StopTerminate ==
    /\ pc = "stop"
    /\ stops' = stops + 1
    /\ \/ /\ sigterm' = TRUE
          /\ pc' = "stop_wait"
          /\ UNCHANGED <<outcome, failed>>
       \/ /\ pc' = "returned"
          /\ outcome' = "raise"
          /\ failed' = IF failed = "none" THEN "stop" ELSE failed
          /\ UNCHANGED sigterm
    /\ UNCHANGED <<rc, jobVars, proc, starts, sigkill, waitVars, wsVars,
                   genVars, wallVars>>

\* StopWait with proc.kill() issued whatever proc.wait() did
StopWaitAlwaysKill ==
    /\ pc = "stop_wait"
    /\ \/ proc' = "exited"
       \/ UNCHANGED proc
    /\ pc' = "stop_kill"
    /\ UNCHANGED <<outcome, rc, failed, jobVars, starts, stops, sigterm,
                   sigkill, waitVars, wsVars, genVars, wallVars>>

\* stop_comfyui: proc.wait(timeout=10) returns, or raises TimeoutExpired
StopWait ==
    /\ pc = "stop_wait"
    /\ \/ proc' = "exited" /\ pc' = "returned"
       \/ pc' = "stop_kill" /\ UNCHANGED proc
    /\ UNCHANGED <<outcome, rc, failed, jobVars, starts, stops, sigterm,
                   sigkill, waitVars, wsVars, genVars, wallVars>>

\* stop_comfyui: proc.kill()
StopKill ==
    /\ pc = "stop_kill"
    /\ sigkill' = TRUE
    /\ proc' = "exited"
    /\ pc' = "returned"
    /\ UNCHANGED <<outcome, rc, failed, jobVars, starts, stops, sigterm,
                   waitVars, wsVars, genVars, wallVars>>

\* Exit with the status 0 whenever main() did not return 1
ExitZeroOnError ==
    /\ pc = "returned"
    /\ rc' = IF outcome = "return1" THEN 1 ELSE 0
    /\ pc' = "exited"
    /\ UNCHANGED <<outcome, failed, jobVars, procVars, waitVars, wsVars,
                   genVars, wallVars>>

\* __main__: sys.exit(main()), or sys.exit(1) on an exception
Exit ==
    /\ pc = "returned"
    /\ rc' = IF outcome = "return0" THEN 0 ELSE 1
    /\ pc' = "exited"
    /\ UNCHANGED <<outcome, failed, jobVars, procVars, waitVars, wsVars,
                   genVars, wallVars>>

Next ==
    \/ Main
    \/ LoadWorkflow
    \/ StartComfyui
    \/ WaitProbe
    \/ WaitTimeout
    \/ Connect
    \/ Submit
    \/ Recv
    \/ GetHistory
    \/ GetImage
    \/ CheckImage
    \/ SaveImage
    \/ RemoveSymlink
    \/ CreateSymlink
    \/ RestartSwaybg
    \/ CloseWs
    \/ StopTerminate
    \/ StopWait
    \/ StopKill
    \/ Exit

Spec == Init /\ [][Next]_vars

\* the stream delivers the completion event of the watched job
RecvCompletion ==
    /\ Recv
    /\ lastFrame'.msg = [type |-> "executing",
                         data |-> [node |-> None, prompt_id |-> prompt_id]]

\* A stream that could deliver the watched job's completion event for
\* ever does deliver it; nothing else is assumed of the run's progress.
LiveSpec == Spec /\ WF_vars(RecvCompletion)

TypeOK ==
    /\ outcome \in {"none", "return0", "return1", "raise"}
    /\ rc \in {-1, 0, 1}
    /\ proc \in {"none", "running", "exited"}
    /\ ws \in {"none", "open", "closed"}
    /\ elapsed \in 0..(ReadyTimeout + ProbeTimeout + PollSleep)

\* ------------------------------------------------------------------- claims
AfterClose == {"stop", "stop_wait", "stop_kill", "returned", "exited"}

\* the failing steps the run can name: setup, submit, watch, fetch
SetupFailures == {"template", "load", "ready"}
SubmitFailures == {"submit"}
WatchFailures == {"recv", "watch"}
FetchFailures == {"history", "history_key", "fetch", "noimage"}

\* C1 as stated: whichever of setup, submit, watch or fetch fails, a run
\* that has ended has invoked stop_comfyui exactly once.
C1_StopOnEveryFailure ==
    (pc = "exited"
        /\ failed \in SetupFailures \cup SubmitFailures \cup WatchFailures
                          \cup FetchFailures)
        => stops = 1

\* C1 amended: stop_comfyui is never invoked twice; a run that has ended
\* after a failure of the readiness wait, the connection, submit, watch or
\* fetch has invoked it exactly once; a run that failed before the server
\* was started (template missing or unloadable, server not spawned) has
\* invoked it zero times.
C1_StopOncePerStartedRun ==
    /\ stops <= 1
    /\ pc = "exited" =>
          /\ stops = starts
          /\ failed \in {"ready", "connect"} \cup SubmitFailures
                            \cup WatchFailures \cup FetchFailures
                => stops = 1
          /\ failed \in {"template", "load", "start"} => stops = 0

C1_Witness == pc = "exited" /\ failed = "watch" /\ stops = 1 /\ starts = 1

\* C2: a run on which ws.connect returned closes the connection exactly
\* once on every exit path: never twice, not while the inner block is still
\* running, and once by the time the run is past the inner finally; a run
\* that never connected never closes.
C2_CloseExactlyOnce ==
    /\ closes <= 1
    /\ ws = "none" => closes = 0
    /\ ws = "open" => closes = 0 /\ pc \notin AfterClose
    /\ (pc \in AfterClose /\ ws # "none") => closes = 1 /\ ws = "closed"

C2_Witness == pc = "exited" /\ failed = "save" /\ closes = 1 /\ ws = "closed"

\* an event of the expected shape that belongs to another job than id
WellFormedForeign(out, id) ==
    /\ out.str /\ out.json
    /\ DOMAIN out.msg = {"type", "data"}
    /\ DOMAIN out.msg["data"] = {"node", "prompt_id"}
    /\ out.msg["data"]["prompt_id"] # id

\* the completion event of job id
OwnCompletion(out, id) ==
    /\ out.str /\ out.json
    /\ "type" \in DOMAIN out.msg /\ out.msg["type"] = "executing"
    /\ "data" \in DOMAIN out.msg
    /\ "node" \in DOMAIN out.msg["data"] /\ out.msg["data"]["node"] = None
    /\ "prompt_id" \in DOMAIN out.msg["data"]
    /\ out.msg["data"]["prompt_id"] = id

\* C3: on an event of another job, with node set or unset, the watcher
\* stays in its receive loop without completing or failing, and whenever
\* the watcher has completed the last event carried the watched identifier.
C3_ForeignEventsIgnored ==
    /\ [][(pc = "watch" /\ lastFrame' # lastFrame
              /\ WellFormedForeign(lastFrame', prompt_id))
             => (pc' = "watch" /\ outcome' = "none")]_vars
    /\ [](pc = "history" =>
             /\ "data" \in DOMAIN lastFrame.msg
             /\ "prompt_id" \in DOMAIN lastFrame.msg["data"]
             /\ lastFrame.msg["data"]["prompt_id"] = prompt_id)

C3_Witness ==
    pc = "history" /\ sawForeign /\ OwnCompletion(lastFrame, prompt_id)

\* C4: a received event moves the watcher to Complete if and only if it is
\* an executing event with node null and the watched prompt_id; while the
\* watcher is receiving its last event was not that one.
C4_CompleteExactlyOnOwnNullNode ==
    /\ [][(pc = "watch" /\ lastFrame' # lastFrame)
             => (pc' = "history" <=> OwnCompletion(lastFrame', prompt_id))]_vars
    /\ [](pc = "watch" => ~OwnCompletion(lastFrame, prompt_id))
    /\ [](pc \in {"history", "download", "check"}
             => OwnCompletion(lastFrame, prompt_id))

C4_Witness ==
    /\ pc = "history"
    /\ lastFrame.msg = [type |-> "executing",
                        data |-> [node |-> None, prompt_id |-> prompt_id]]

\* C5: the readiness wait is bounded: the measured time never passes the
\* timeout by more than one probe and one sleep, and every failed probe
\* advances it by at least the sleep; when wait_for_comfyui has reported
\* failure the connection is never opened, nothing is submitted, and the
\* exit status is 1.
C5_ReadinessTimeoutAborts ==
    /\ [](elapsed < ReadyTimeout + ProbeTimeout + PollSleep)
    /\ [][(pc = "wait" /\ pc' = "wait") => elapsed' >= elapsed + PollSleep]_vars
    /\ [](ready = "no" =>
             /\ ws = "none" /\ submits = 0
             /\ rc # 0
             /\ pc = "exited" => rc = 1)

C5_Witness ==
    pc = "exited" /\ ready = "no" /\ rc = 1 /\ ws = "none" /\ submits = 0

\* the job description d has the path stage / "inputs" / param
HasPath(d, stage, param) ==
    /\ stage \in DOMAIN d
    /\ "inputs" \in DOMAIN d[stage]
    /\ param \in DOMAIN d[stage]["inputs"]

\* w has the stages, parameters and inputs of t, with the same values
\* except at the paths in injected
SameExceptAt(w, t, injected) ==
    /\ DOMAIN w = DOMAIN t
    /\ \A stage \in DOMAIN t :
          /\ DOMAIN w[stage] = DOMAIN t[stage]
          /\ \A param \in DOMAIN t[stage] \ {"inputs"} :
                w[stage][param] = t[stage][param]
          /\ "inputs" \in DOMAIN t[stage] =>
                /\ DOMAIN w[stage]["inputs"] = DOMAIN t[stage]["inputs"]
                /\ \A name \in DOMAIN t[stage]["inputs"] :
                      <<stage, name>> \notin injected
                          => w[stage]["inputs"][name] = t[stage]["inputs"][name]

\* C6 as stated: once load_workflow has returned for a template that lacks
\* the seed path or the prompt path, the job description has exactly the
\* stages and parameters of the template, with the same values everywhere
\* except at the injected paths that exist in the template.
C6_MissingPathLeavesRestUnmodified ==
    (pc \in {"start", "wait", "connect", "submit"}
        /\ (~HasPath(template, "3", "seed") \/ ~HasPath(template, "6", "text")))
        => SameExceptAt(workflow, template,
               {<<"3", "seed">>, <<"6", "text">>})

\* an event that does not have the expected shape: no type field, an
\* executing event without data, node or prompt_id, or another type
Malformed(out) ==
    /\ out.str /\ out.json
    /\ \/ "type" \notin DOMAIN out.msg
       \/ out.msg["type"] # "executing"
       \/ "data" \notin DOMAIN out.msg
       \/ "node" \notin DOMAIN out.msg["data"]
       \/ "prompt_id" \notin DOMAIN out.msg["data"]

\* C7 as stated: on an event that does not have the expected shape the
\* watcher raises nothing and stays in its receive loop.
C7_MalformedEventsIgnored ==
    [][(pc = "watch" /\ lastFrame' # lastFrame /\ Malformed(lastFrame'))
          => (pc' = "watch" /\ outcome' = "none")]_vars

\* C8: queue_prompt is called at most once per run, and after it failed the
\* watcher receives nothing, the history is not queried, nothing is
\* downloaded or written, and the exit status is 1.
C8_FailedSubmitAborts ==
    /\ submits <= 1
    /\ failed = "submit" =>
          /\ pc \in {"close"} \cup AfterClose
          /\ submits = 1
          /\ lastFrame = NoFrame
          /\ histories = 0 /\ downloads = 0
          /\ ~saved /\ symlink = symlink0
          /\ rc # 0
          /\ pc = "exited" => rc = 1

C8_Witness == pc = "exited" /\ failed = "submit" /\ rc = 1 /\ submits = 1

\* no stage of outputs has a non-empty "images" list
NoStageExposesImage(outputs) ==
    \A i \in 1..Len(outputs) :
        \/ "images" \notin DOMAIN outputs[i].out
        \/ outputs[i].out["images"] = << >>

\* the history lookup answered and the scan found no image
NoArtifactFound ==
    /\ histories = 1
    /\ pc # "history"
    /\ failed \notin {"history", "history_key"}
    /\ target = NoImage

\* C9: when the history has outputs of which no stage exposes an image,
\* the fetcher returns None without raising; from then on no image file is
\* written, the symlink is as it was before the run, nothing is downloaded,
\* the exit status is 1, and the run has closed the connection and invoked
\* stop_comfyui once each by the time it ends.
C9_NoImageFailsRunWithCleanup ==
    /\ [][(pc = "history" /\ histories' = histories + 1
              /\ prompt_id \in DOMAIN history'
              /\ "outputs" \in DOMAIN history'[prompt_id]
              /\ NoStageExposesImage(history'[prompt_id]["outputs"]))
             => (pc' = "check" /\ outcome' = "none" /\ target' = NoImage
                    /\ image_data' = NoBytes)]_vars
    /\ [](NoArtifactFound =>
             /\ pc \in {"check", "close"} \cup AfterClose
             /\ ~saved /\ symlink = symlink0 /\ downloads = 0
             /\ rc # 0
             /\ pc = "exited" =>
                   rc = 1 /\ closes = 1 /\ ws = "closed" /\ stops = 1)

C9_Witness ==
    /\ pc = "exited" /\ failed = "noimage" /\ downloads = 0 /\ histories = 1
    /\ rc = 1 /\ ~saved /\ closes = 1 /\ stops = 1

\* stage i of outputs exposes an image
Exposes(outputs, i) ==
    /\ "images" \in DOMAIN outputs[i].out
    /\ Len(outputs[i].out["images"]) >= 1

\* the history of the example: stage "5" without images, then stage "9"
\* with one image
ExampleOutputs ==
    << [id |-> "5", out |-> NodeOutput("5", -1)],
       [id |-> "9", out |-> NodeOutput("9", 1)] >>

\* C10: the image handed to get_image is the first entry of the first
\* stage, in mapping order, that has a non-empty images list; with the
\* example history it is the image of stage "9"; get_image is called at
\* most once, and once it has returned the artifact is that image's bytes.
C10_FirstImageOfFirstExposingStage ==
    /\ downloads <= 1
    /\ pc = "download" =>
          LET outputs == history[prompt_id]["outputs"] IN
          /\ downloads = 0
          /\ \E i \in 1..Len(outputs) :
                /\ Exposes(outputs, i)
                /\ \A j \in 1..(i - 1) : ~Exposes(outputs, j)
                /\ target = outputs[i].out["images"][1]
          /\ outputs = ExampleOutputs => target = Image("9", 1)
    /\ (pc = "check" /\ target # NoImage) =>
          downloads = 1 /\ image_data.of = target

C10_Witness ==
    /\ pc = "check"
    /\ history[prompt_id]["outputs"] = ExampleOutputs
    /\ image_data = [of |-> Image("9", 1), len |-> 1]
    /\ downloads = 1

\* the positions of the two finally blocks
Cleanup == {"close", "stop", "stop_wait", "stop_kill"}

\* C11 as stated: no step of the cleanup changes how the run is leaving (a
\* failure of ws.close() or of stop_comfyui is not re-raised, so a run that
\* was returning 0 still exits 0), and a run that opened the connection has
\* invoked stop_comfyui by the time it ends.
C11_CleanupFailuresSwallowed ==
    /\ [][(pc \in Cleanup) => (outcome' = outcome)]_vars
    /\ [](pc = "exited" /\ swaybg = "new" => rc = 0)
    /\ [](pc = "exited" /\ ws # "none" => stops = 1)

\* C12: proc.kill() is issued only after proc.terminate(), only from the
\* handler of the timed-out wait and while the process is still running;
\* a wait that sees the process exit returns without a kill, a wait that
\* times out is always followed by the kill, and once stop_comfyui has
\* signalled the process a finished run has no running server.
C12_KillOnlyAfterTimedOutWait ==
    /\ [](sigkill => sigterm)
    /\ [](pc \in {"stop_wait", "stop_kill"} =>
             sigterm /\ ~sigkill /\ proc = "running")
    /\ [][sigkill' # sigkill =>
             (pc = "stop_kill" /\ sigterm /\ proc = "running")]_vars
    /\ [][pc = "stop_wait" =>
             \/ proc' = "exited" /\ pc' = "returned" /\ ~sigkill'
             \/ proc' = "running" /\ pc' = "stop_kill"]_vars
    /\ [][pc = "stop_kill" => (sigkill' /\ proc' = "exited")]_vars
    /\ []((pc \in {"returned", "exited"} /\ sigterm) => proc = "exited")

C12_Witness == pc = "exited" /\ sigterm /\ sigkill /\ proc = "exited"

\* the CLI call gave no usable scene: it was missing, timed out, raised,
\* exited non-zero, or printed only blank and status lines
CliFailed(c) ==
    \/ c.status \in {"missing", "timeout", "error", "nonzero"}
    \/ /\ c.status = "ok"
       /\ \A i \in 1..Len(c.stdout) :
             c.stdout[i] = BlankLine
                 \/ \E w \in {"Loaded", "credentials."} :
                       \E j \in 1..Len(c.stdout[i]) : c.stdout[i][j] = w

\* C13: when the CLI call gives no usable scene, load_workflow returns
\* (the run is at start_comfyui, nothing raised) with no scene and with
\* stage "6" exactly as in the template, and a run without a scene is not
\* stopped by that before the submission.
C13_CliFailureKeepsDefaultPrompt ==
    /\ [][(pc = "load" /\ cli' # cli /\ CliFailed(cli'))
             => (pc' = "start" /\ outcome' = "none" /\ scene' = NoScene)]_vars
    /\ [](pc = "start" /\ CliFailed(cli) =>
             /\ scene = NoScene
             /\ "6" \in DOMAIN workflow <=> "6" \in DOMAIN template
             /\ "6" \in DOMAIN template => workflow["6"] = template["6"])
    /\ [](pc \in {"start", "wait", "connect", "submit", "watch"}
             => failed = "none")

C13_Witness ==
    pc = "watch" /\ scene = NoScene /\ starts = 1 /\ submits = 1
        /\ outcome = "none"

\* s is an integer of [1, 2**32 - 1], written in base 2**16
InSeedRange(s) ==
    /\ s.hi \in 0..(Word - 1)
    /\ s.lo \in 0..(Word - 1)
    /\ ~(s.hi = 0 /\ s.lo = 0)

\* C15: whenever load_workflow has returned for a template with the seed
\* path, the seed of the job description lies in [1, 2**32 - 1], whatever
\* the template held, and the seed is written at that path only.
C15_SeedOverwrittenInRange ==
    (pc \in {"start", "wait", "connect", "submit"}
        /\ HasPath(template, "3", "seed"))
        => /\ HasPath(workflow, "3", "seed")
           /\ InSeedRange(workflow["3"]["inputs"]["seed"])
           /\ HasPath(template, "6", "seed") =>
                 /\ HasPath(workflow, "6", "seed")
                 /\ workflow["6"]["inputs"]["seed"]
                        = template["6"]["inputs"]["seed"]

C15_Witness ==
    /\ pc = "submit"
    /\ HasPath(template, "3", "seed")
    /\ template["3"]["inputs"]["seed"] = Seed(Word, 0)
    /\ workflow["3"]["inputs"]["seed"] = SeedMax

\* C14: a run never ends while an exception is still propagating without
\* an exit status, a run that ends after an error of any step has the exit
\* status 1, and the exit status is 0 only when one image was downloaded,
\* it was not empty, it was written to its file, the symlink points at it
\* and swaybg was restarted.
C14_ErrorsExitNonZero ==
    /\ rc \in {-1, 0, 1}
    /\ rc = -1 <=> pc # "exited"
    /\ (pc = "exited" /\ (outcome = "raise" \/ failed # "none")) => rc = 1
    /\ rc = 0 =>
          /\ outcome = "return0" /\ failed = "none"
          /\ downloads = 1 /\ image_data.len > 0 /\ image_data.of = target
          /\ saved /\ symlink = "new" /\ swaybg = "new"

C14_Witness ==
    pc = "exited" /\ outcome = "raise" /\ failed = "fetch" /\ rc = 1

\* C16: get_history is called only from the position after the loop, once
\* queue_prompt was called and with the completion event of the watched
\* job as the last event received; get_image is called only after that
\* lookup, for an entry of its answer; the identifier is chosen before the
\* submission and never changes, and the history held is keyed by it.
C16_SubmitCompleteHistoryDownload ==
    /\ [][(pc = "watch" /\ pc' = "history")
             => (submits = 1 /\ OwnCompletion(lastFrame', prompt_id))]_vars
    /\ [][histories' # histories =>
             (/\ pc = "history" /\ submits = 1 /\ downloads = 0
              /\ OwnCompletion(lastFrame, prompt_id))]_vars
    /\ [][downloads' # downloads =>
             (/\ histories = 1 /\ submits = 1
              /\ OwnCompletion(lastFrame, prompt_id)
              /\ prompt_id \in DOMAIN history
              /\ target # NoImage)]_vars
    /\ [][prompt_id' # prompt_id => (pc = "submit" /\ submits = 0)]_vars
    /\ []("none" \notin DOMAIN history => DOMAIN history \subseteq {prompt_id})
    /\ [](histories <= submits /\ downloads <= histories)

C16_Witness ==
    /\ pc = "check" /\ submits = 1 /\ histories = 1 /\ downloads = 1
    /\ OwnCompletion(lastFrame, prompt_id)
    /\ DOMAIN history = {prompt_id}

\* the history answer h has an entry for the watched job without "outputs"
LacksOutputs(h) ==
    /\ prompt_id \in DOMAIN h
    /\ "outputs" \notin DOMAIN h[prompt_id]

\* C17 as stated: a history entry without "outputs" makes the fetcher
\* raise nothing and yield no artifact.
C17_MissingOutputsIgnored ==
    [][(pc = "history" /\ histories' # histories /\ LacksOutputs(history'))
          => (outcome' = "none" /\ target' = NoImage
                 /\ image_data' = NoBytes)]_vars

\* C17 amended: a history entry without "outputs" makes the fetcher raise
\* (the run leaves generate_image with an exception); no artifact is
\* yielded, nothing is downloaded or written, the symlink is as before,
\* and the run ends with status 1 after one close and one stop.
C17_MissingOutputsRaises ==
    /\ [][(pc = "history" /\ histories' # histories /\ LacksOutputs(history'))
             => (/\ outcome' = "raise" /\ pc' = "close"
                 /\ target' = NoImage /\ image_data' = NoBytes)]_vars
    /\ [](LacksOutputs(history) =>
             /\ outcome = "raise"
             /\ downloads = 0 /\ image_data = NoBytes
             /\ ~saved /\ symlink = symlink0
             /\ rc # 0
             /\ pc = "exited" => rc = 1 /\ closes = 1 /\ stops = 1)

C17_Witness ==
    pc = "exited" /\ LacksOutputs(history) /\ rc = 1 /\ downloads = 0

\* C18: stop_comfyui is invoked only on a process that start_comfyui has
\* spawned and at most once; while the run is inside the outer try block
\* the server is started and not yet stopped; a run that has ended has
\* started the server if and only if it has invoked stop_comfyui, and a run
\* that failed at the template check or in load_workflow has done neither.
C18_StartedIffStopped ==
    /\ [][stops' # stops => (starts = 1 /\ stops = 0 /\ proc = "running")]_vars
    /\ [][starts' # starts => (starts = 0 /\ stops = 0 /\ pc = "start")]_vars
    /\ [](pc \in {"returned", "exited"} =>
             /\ starts = 1 <=> stops = 1
             /\ starts = 0 <=> stops = 0
             /\ starts = 0 <=> proc = "none")
    /\ []((pc \in {"returned", "exited"} /\ failed \in {"template", "load"})
             => (starts = 0 /\ stops = 0 /\ proc = "none"))

C18_Witness ==
    pc = "exited" /\ failed = "load" /\ starts = 0 /\ stops = 0
        /\ proc = "none"

\* a frame that is not the watched job's completion event and has nothing
\* missing: not text, another type, a node that is set, or another job
NonMatching(out, id) ==
    \/ ~out.str
    \/ /\ out.json
       /\ "type" \in DOMAIN out.msg
       /\ \/ out.msg["type"] # "executing"
          \/ /\ DOMAIN out.msg = {"type", "data"}
             /\ "node" \in DOMAIN out.msg["data"]
             /\ \/ out.msg["data"]["node"] # None
                \/ /\ "prompt_id" \in DOMAIN out.msg["data"]
                   /\ out.msg["data"]["prompt_id"] # id

\* C19: on a stream that eventually delivers the watched job's completion
\* event the watcher eventually leaves its loop (to Complete, unless an
\* exception ended it first); a non-matching frame always leaves it in the
\* loop, the loop is left only on the completion event or on an exception,
\* and while the watcher is in the loop no cleanup has run.
C19_WatcherBlocksUntilCompletion ==
    /\ (pc = "watch") ~> (pc = "history" \/ outcome = "raise")
    /\ [][(pc = "watch" /\ lastFrame' # lastFrame
              /\ NonMatching(lastFrame', prompt_id))
             => (pc' = "watch" /\ outcome' = "none")]_vars
    /\ [][(pc = "watch" /\ pc' # "watch") =>
             \/ pc' = "history" /\ OwnCompletion(lastFrame', prompt_id)
             \/ pc' = "close" /\ outcome' = "raise"
                   /\ failed' \in {"recv", "watch"}]_vars
    /\ [](pc = "watch" => (closes = 0 /\ stops = 0 /\ ws = "open" /\ rc = -1))

C19_Witness ==
    pc = "watch" /\ sawForeign /\ ~lastFrame.str /\ lastFrame # NoFrame

\* C20: set_wallpaper_swaybg goes on past os.symlink only with the symlink
\* pointing at the image saved in this run, whatever was at the path when
\* the run began; the old entry is removed before the new one is created,
\* so os.symlink is reached with nothing at the path and a failure of it
\* leaves nothing there; a run that exits with 0 has the new symlink.
C20_SymlinkReplacedByRemoveThenCreate ==
    /\ [](pc = "symlink" => symlink = "absent")
    /\ [](pc = "swaybg" => (symlink = "new" /\ saved))
    /\ []((swaybg = "new" \/ rc = 0) => (symlink = "new" /\ saved))
    /\ [][(pc = "setwp" /\ pc' = "symlink") => (symlink' = "absent")]_vars
    /\ [][(pc = "symlink" /\ pc' = "swaybg")
             => (symlink = "absent" /\ symlink' = "new")]_vars
    /\ [][(pc = "symlink" /\ pc' # "swaybg") => (symlink' = "absent")]_vars
    /\ [][(symlink' # symlink) => (pc \in {"setwp", "symlink"})]_vars

C20_Witness ==
    pc = "exited" /\ rc = 0 /\ symlink0 = "dangling" /\ symlink = "new"
        /\ swaybg = "new"
====
